---- MODULE Spec2Model ----
(***************************************************************************)
(* A model of gh-issues-pr-export: the Markdown exporter                   *)
(* (src/export_issues_prs.py) and the extension cleanup                    *)
(* (src/cleanup_img_ext.py).                                               *)
(*                                                                         *)
(* Text is modelled structurally.  A Python str that the code takes apart  *)
(* (a file name, an extension, a repository argument) is a sequence of     *)
(* one-character strings; a byte string is a sequence of numbers 0..255.   *)
(* The module holds several specifications over one set of variables; a    *)
(* specification leaves the variables of the other components idle.        *)
(***************************************************************************)
EXTENDS Integers, Sequences, FiniteSets, TLC

VARIABLES
    \* ---- extension sniffer (detect_ext_from_file / detect_ext) ----
    data,       \* the content of the file handed to the sniffer
    readable,   \* FALSE: path.read_bytes() raises
    sniffpc,    \* "in" before the call, "out" after it
    ext1,       \* result of export_issues_prs.detect_ext_from_file
    ext2        \* result of cleanup_img_ext.detect_ext

sniffVars == <<data, readable, sniffpc, ext1, ext2>>

VARIABLES
    \* ---- sort_comments ----
    comments,   \* the comment list handed to sort_comments
    sortpc,     \* "in" before the call, "out" after it
    sorted      \* the list sort_comments returned

sortVars == <<comments, sortpc, sorted>>

VARIABLES
    \* ---- find_related_issues ----
    pr_body,        \* the PR body: a sequence of text fragments
    issue_numbers,  \* the known issue numbers of the repository
    relOwner,       \* owner of the repository being exported
    relRepo,        \* name of the repository being exported
    relpc,          \* "in" before the call, "out" after it
    related         \* the list find_related_issues returned

relVars == <<pr_body, issue_numbers, relOwner, relRepo, relpc, related>>

VARIABLES
    \* ---- one repository export: ImageStats, ImageTracker, replace_images ----
    docIdx,      \* the document being rendered: an index into DocList
    counter,     \* ImageTracker.counter
    url_to_rel,  \* ImageTracker.url_to_rel
    stats,       \* ImageStats: attempted, downloaded, failed
    missing,     \* process_repo's list of missing-attachment records
    fs,          \* the files in the document's assets directory
    netlog,      \* the tracker's calls of download_image and their attempts
    calls,       \* the tracker's calls of get_local: URL, result, how it ended,
                 \* and whether Path.rename was going to succeed
    text,        \* the text replace_images was called with
    pos,         \* the piece of text that IMG_PATTERN.sub is at
    out,         \* the pieces of the result built so far
    tpc,         \* "ready", "replacing" (inside replace_images) or "crashed"
    ncalls       \* the number of replace_images calls so far

trackerVars == <<docIdx, counter, url_to_rel, stats, missing, fs, netlog, calls,
                 text, pos, out, tpc, ncalls>>

VARIABLES
    \* ---- main and process_repo ----
    argv,      \* args.repo: the --repo arguments in order
    argi,      \* the argument the loop of main is at
    raw,       \* the raw directory of each repository, by slug
    mpc,       \* "loop", "halted" (return 1), "returned" (return 0), "crashed"
    stderr,    \* the messages written to stderr
    stdout,    \* the lines printed
    rendered,  \* the Markdown documents written, in order
    visits,    \* the repositories process_repo was called with
    rc         \* the exit status, -1 while running

mainVars == <<argv, argi, raw, mpc, stderr, stdout, rendered, visits, rc>>

VARIABLES
    \* ---- cleanup_img_ext.main ----
    cfiles,   \* the assets directory: file name -> content
    cmds,     \* the texts of the Markdown files
    cfiles0,  \* the assets directory before the run
    cmds0,    \* the Markdown texts before the run
    cpc       \* "start" before the run, "done" after it

cleanupVars == <<cfiles, cmds, cfiles0, cmds0, cpc>>

VARIABLES
    \* ---- the item loops of process_repo and maybe_log_progress ----
    total_items,   \* len(issues) + len(prs)
    processed,     \* the items rendered so far
    last_percent,  \* the percentage of the last progress line, -1 at first
    progress       \* the progress lines printed: percent, processed

progressVars == <<total_items, processed, last_percent, progress>>

vars == <<sniffVars, sortVars, relVars, trackerVars, mainVars, cleanupVars,
          progressVars>>

(***************************************************************************)
(* Generic helpers on sequences.                                           *)
(***************************************************************************)
Take(s, n) == SubSeq(s, 1, IF n < Len(s) THEN n ELSE Len(s))

StartsWith(s, p) == Len(s) >= Len(p) /\ SubSeq(s, 1, Len(p)) = p

Range(s) == {s[i] : i \in DOMAIN s}

(***************************************************************************)
(* Idle values of each component's variables.                              *)
(***************************************************************************)
SniffIdle ==
    /\ data = <<>>
    /\ readable = TRUE
    /\ sniffpc = "idle"
    /\ ext1 = <<>>
    /\ ext2 = <<>>

TrackerIdle ==
    /\ docIdx = 0
    /\ counter = 0
    /\ url_to_rel = <<>>
    /\ stats = [attempted |-> 0, downloaded |-> 0, failed |-> 0]
    /\ missing = <<>>
    /\ fs = <<>>
    /\ netlog = <<>>
    /\ calls = <<>>
    /\ text = <<>>
    /\ pos = 0
    /\ out = <<>>
    /\ tpc = "idle"
    /\ ncalls = 0

SortIdle ==
    /\ comments = <<>>
    /\ sortpc = "idle"
    /\ sorted = <<>>

RelIdle ==
    /\ pr_body = <<>>
    /\ issue_numbers = {}
    /\ relOwner = ""
    /\ relRepo = ""
    /\ relpc = "idle"
    /\ related = <<>>

MainIdle ==
    /\ argv = <<>>
    /\ argi = 0
    /\ raw = <<>>
    /\ mpc = "idle"
    /\ stderr = <<>>
    /\ stdout = <<>>
    /\ rendered = <<>>
    /\ visits = <<>>
    /\ rc = -1

CleanupIdle ==
    /\ cfiles = <<>>
    /\ cmds = <<>>
    /\ cfiles0 = <<>>
    /\ cmds0 = <<>>
    /\ cpc = "idle"

ProgressIdle ==
    /\ total_items = 0
    /\ processed = 0
    /\ last_percent = -1
    /\ progress = <<>>

(***************************************************************************)
(* Magic numbers, as the byte values the literals of the source denote.    *)
(***************************************************************************)
PngSig == <<137, 80, 78, 71, 13, 10, 26, 10>>   \* b"\x89PNG\r\n\x1a\n"
JpegSig == <<255, 216, 255>>                    \* b"\xff\xd8\xff"
Gif87a == <<71, 73, 70, 56, 55, 97>>            \* b"GIF87a"
Gif89a == <<71, 73, 70, 56, 57, 97>>            \* b"GIF89a"
Riff == <<82, 73, 70, 70>>                      \* b"RIFF"
Webp == <<87, 69, 66, 80>>                      \* b"WEBP"

\* Extensions, as character sequences.  NoExt stands for Python's None (the
\* callers only test the result for truth).
NoExt == <<>>
ExtPng == <<".", "p", "n", "g">>
ExtJpg == <<".", "j", "p", "g">>
ExtJpeg == <<".", "j", "p", "e", "g">>
ExtGif == <<".", "g", "i", "f">>
ExtWebp == <<".", "w", "e", "b", "p">>
ExtImg == <<".", "i", "m", "g">>

\* A GIF sniffer that knows only the GIF89a signature.
detect_ext_from_file_gif89only(bytes, canRead) ==
    IF ~canRead THEN NoExt
    ELSE LET d == Take(bytes, 12) IN
         IF StartsWith(d, PngSig) THEN ExtPng
         ELSE IF StartsWith(d, JpegSig) THEN ExtJpg
         ELSE IF StartsWith(d, Gif89a) THEN ExtGif
         ELSE IF Len(d) >= 12 /\ SubSeq(d, 1, 4) = Riff /\ SubSeq(d, 9, 12) = Webp
              THEN ExtWebp
         ELSE NoExt

\* export_issues_prs.detect_ext_from_file: bytes is the file's content,
\* canRead is FALSE when read_bytes() raises.
detect_ext_from_file(bytes, canRead) ==
    IF ~canRead THEN NoExt
    ELSE LET d == Take(bytes, 12) IN
         IF StartsWith(d, PngSig) THEN ExtPng
         ELSE IF StartsWith(d, JpegSig) THEN ExtJpg
         ELSE IF StartsWith(d, Gif87a) \/ StartsWith(d, Gif89a) THEN ExtGif
         ELSE IF Len(d) >= 12 /\ SubSeq(d, 1, 4) = Riff /\ SubSeq(d, 9, 12) = Webp
              THEN ExtWebp
         ELSE NoExt

\* cleanup_img_ext.detect_ext: the cleanup script's own copy of the sniffer.
detect_ext(bytes, canRead) ==
    IF ~canRead THEN NoExt
    ELSE LET d == Take(bytes, 12) IN
         IF StartsWith(d, PngSig) THEN ExtPng
         ELSE IF StartsWith(d, JpegSig) THEN ExtJpg
         ELSE IF StartsWith(d, Gif87a) \/ StartsWith(d, Gif89a) THEN ExtGif
         ELSE IF Len(d) >= 12 /\ SubSeq(d, 1, 4) = Riff /\ SubSeq(d, 9, 12) = Webp
              THEN ExtWebp
         ELSE NoExt

(***************************************************************************)
(* Specification SpecSniff: the two sniffers on bounded byte strings.      *)
(* The inputs are the signatures padded to MaxSniffLen bytes, with at most *)
(* one byte changed, cut to every length 0..MaxSniffLen.                   *)
(***************************************************************************)
MaxSniffLen == 13

Pad(s, n) == [i \in 1..n |-> IF i <= Len(s) THEN s[i] ELSE 0]

SniffTemplates ==
    { Pad(PngSig, MaxSniffLen), Pad(JpegSig, MaxSniffLen),
      Pad(Gif87a, MaxSniffLen), Pad(Gif89a, MaxSniffLen),
      Pad(Riff \o <<0, 0, 0, 0>> \o Webp, MaxSniffLen),
      Pad(<<>>, MaxSniffLen) }

\* Bytes written over one position of a template.
SniffNoise == {0, 71}

SniffInputs ==
    { Take([t EXCEPT ![p] = b], n) :
        t \in SniffTemplates, p \in 1..MaxSniffLen, b \in SniffNoise \cup {255},
        n \in 0..MaxSniffLen }
    \cup { Take(t, n) : t \in SniffTemplates, n \in 0..MaxSniffLen }

InitSniff ==
    /\ SortIdle
    /\ RelIdle
    /\ TrackerIdle
    /\ MainIdle
    /\ CleanupIdle
    /\ ProgressIdle
    /\ data \in SniffInputs
    /\ readable \in BOOLEAN
    /\ sniffpc = "in"
    /\ ext1 = NoExt
    /\ ext2 = NoExt

\* One call of each sniffer on the same file.
Sniff ==
    /\ sniffpc = "in"
    /\ ext1' = detect_ext_from_file(data, readable)
    /\ ext2' = detect_ext(data, readable)
    /\ sniffpc' = "out"
    /\ UNCHANGED <<data, readable>>
    /\ UNCHANGED <<sortVars, relVars, trackerVars, mainVars, cleanupVars,
                 progressVars>>

NextSniff == Sniff

SpecSniff == InitSniff /\ [][NextSniff]_vars

\* C8: on every byte string both sniffers agree and answer PNG, JPEG, GIF or
\* WEBP exactly on the strings that carry that format's magic number, and
\* "unknown" on every other string (empty and truncated ones included).
IsPng(d) == StartsWith(d, PngSig)
IsJpeg(d) == StartsWith(d, JpegSig)
IsGif(d) == StartsWith(d, Gif87a) \/ StartsWith(d, Gif89a)
IsWebp(d) ==
    /\ Len(d) >= 12
    /\ \A i \in 1..4 : d[i] = Riff[i] /\ d[8 + i] = Webp[i]

C8_SnifferMatchesMagic ==
    (sniffpc = "out" /\ readable) =>
        /\ ext1 = ext2
        /\ (ext1 = ExtPng) <=> IsPng(data)
        /\ (ext1 = ExtJpg) <=> IsJpeg(data)
        /\ (ext1 = ExtGif) <=> IsGif(data)
        /\ (ext1 = ExtWebp) <=> IsWebp(data)
        /\ (ext1 = NoExt) <=> ~(IsPng(data) \/ IsJpeg(data) \/ IsGif(data) \/ IsWebp(data))
        /\ ext1 \in {ExtPng, ExtJpg, ExtGif, ExtWebp, NoExt}

C8_Witness ==
    /\ sniffpc = "out"
    /\ readable
    /\ Len(data) > 12
    /\ ext1 = ExtGif
    /\ StartsWith(data, Gif87a)

(***************************************************************************)
(* sort_comments.  A comment is a record with the two timestamp keys the   *)
(* code reads and a body; "" stands for a missing key (or a null value).   *)
(***************************************************************************)

\* The timestamp strings of the model and what datetime.fromisoformat and
\* timestamp() make of them; every other string does not parse.
ValidStamps ==
    {"2020-01-01T00:00:00Z", "2020-01-02T00:00:00Z", "2020-01-02T01:00:00+01:00"}

EpochOf(dt) ==
    CASE dt = "2020-01-01T00:00:00Z" -> 1577836800
      [] dt = "2020-01-02T00:00:00Z" -> 1577923200
      [] dt = "2020-01-02T01:00:00+01:00" -> 1577923200

\* float("inf"), the timestamp of a missing or unparseable string.
Inf == [inf |-> TRUE, t |-> 0]

\* parse_iso(dt)[1]: the numeric timestamp.
parse_iso(dt) ==
    IF dt = "" THEN Inf
    ELSE IF dt \in ValidStamps THEN [inf |-> FALSE, t |-> EpochOf(dt)]
    ELSE Inf

\* Python's < and == on the floats parse_iso returns.
TsLess(x, y) == IF x.inf THEN FALSE ELSE (y.inf \/ x.t < y.t)
TsEq(x, y) == (x.inf /\ y.inf) \/ (~x.inf /\ ~y.inf /\ x.t = y.t)

\* A sort key that breaks ties by the larger input index.
KeyLess_reversed_ties(a, b) ==
    TsLess(a.ts, b.ts) \/ (TsEq(a.ts, b.ts) /\ a.idx > b.idx)

\* The order of the sort keys (ts, idx): tuples compare lexicographically.
KeyLess(a, b) ==
    TsLess(a.ts, b.ts) \/ (TsEq(a.ts, b.ts) /\ a.idx < b.idx)

\* c.get("created_at") or c.get("createdAt") or ""
CreatedOf(c) ==
    IF c.created_at # "" THEN c.created_at
    ELSE IF c.createdAt # "" THEN c.createdAt
    ELSE ""

\* list.sort on keys that are pairwise different: insert each element before
\* the first element with a greater key.
InsertByKey(s, e) ==
    LET before == {i \in 1..Len(s) : KeyLess(s[i], e)}
        k == Cardinality(before)
    IN [i \in 1..(Len(s) + 1) |->
            IF i <= k THEN s[i] ELSE IF i = k + 1 THEN e ELSE s[i - 1]]

RECURSIVE SortByKey(_)
SortByKey(s) ==
    IF s = <<>> THEN <<>>
    ELSE InsertByKey(SortByKey(SubSeq(s, 1, Len(s) - 1)), s[Len(s)])

sort_comments(cs) ==
    LET indexed == [i \in 1..Len(cs) |->
                        [ts |-> parse_iso(CreatedOf(cs[i])), idx |-> i - 1, c |-> cs[i]]]
        ordered == SortByKey(indexed)
    IN [i \in 1..Len(cs) |-> ordered[i].c]

(***************************************************************************)
(* Specification SpecSort: sort_comments on every list of at most          *)
(* MaxComments comments drawn from SampleComments.                         *)
(***************************************************************************)
MaxComments == 3

SampleComments ==
    { [created_at |-> "2020-01-02T00:00:00Z", createdAt |-> "", body |-> "a"],
      [created_at |-> "2020-01-01T00:00:00Z", createdAt |-> "", body |-> "b"],
      [created_at |-> "", createdAt |-> "2020-01-02T01:00:00+01:00", body |-> "c"],
      [created_at |-> "yesterday", createdAt |-> "2020-01-01T00:00:00Z", body |-> "d"],
      [created_at |-> "", createdAt |-> "", body |-> "e"],
      [created_at |-> "2020-01-02T00:00:00Z", createdAt |-> "", body |-> "f"] }

SeqsUpTo(S, n) == UNION {[1..k -> S] : k \in 0..n}

InitSort ==
    /\ SniffIdle
    /\ RelIdle
    /\ TrackerIdle
    /\ MainIdle
    /\ CleanupIdle
    /\ ProgressIdle
    /\ comments \in SeqsUpTo(SampleComments, MaxComments)
    /\ sortpc = "in"
    /\ sorted = <<>>

SortComments ==
    /\ sortpc = "in"
    /\ sorted' = sort_comments(comments)
    /\ sortpc' = "out"
    /\ UNCHANGED comments
    /\ UNCHANGED <<sniffVars, relVars, trackerVars, mainVars, cleanupVars,
                 progressVars>>

NextSort == SortComments

SpecSort == InitSort /\ [][NextSort]_vars

\* What the claim calls the parsed creation timestamp of a comment, read off
\* the comment itself.
Unparseable(c) == CreatedOf(c) \notin ValidStamps
InstantOf(c) == EpochOf(CreatedOf(c))

Bijections(n) == {p \in [1..n -> 1..n] : \A i, j \in 1..n : p[i] = p[j] => i = j}

\* C6: sort_comments returns a permutation of its input that is
\* non-decreasing by parsed timestamp, with every comment whose timestamp is
\* missing or unparseable after all parseable ones, and with comments of equal
\* timestamp (the unparseable ones among themselves too) in input order.
C6_SortedStablePermutation ==
    sortpc = "out" =>
        /\ Len(sorted) = Len(comments)
        /\ \E p \in Bijections(Len(comments)) :
              /\ \A i \in 1..Len(sorted) : sorted[i] = comments[p[i]]
              /\ \A i, j \in 1..Len(sorted) : i < j =>
                    /\ Unparseable(sorted[i]) => Unparseable(sorted[j])
                    /\ (~Unparseable(sorted[i]) /\ ~Unparseable(sorted[j]))
                          => InstantOf(sorted[i]) <= InstantOf(sorted[j])
                    /\ (\/ Unparseable(sorted[i]) /\ Unparseable(sorted[j])
                        \/ /\ ~Unparseable(sorted[i]) /\ ~Unparseable(sorted[j])
                           /\ InstantOf(sorted[i]) = InstantOf(sorted[j]))
                          => p[i] < p[j]

C6_Witness ==
    /\ sortpc = "out"
    /\ Len(comments) = 3
    /\ Unparseable(comments[1])
    /\ ~Unparseable(comments[2])
    /\ ~Unparseable(comments[3])
    /\ InstantOf(comments[2]) = InstantOf(comments[3])
    /\ comments[2] # comments[3]
    /\ sorted = <<comments[2], comments[3], comments[1]>>

(***************************************************************************)
(* find_related_issues.  The PR body is a sequence of fragments, each the  *)
(* text "<word><space?><owner/repo?>#<num>"; ISSUE_FIX_PATTERN is tried on *)
(* each.  An absent owner/repo prefix is owner = "" and repo = "".         *)
(***************************************************************************)

\* str.lower() on the names and words of the model.
Lower(s) ==
    CASE s = "Owner" -> "owner"
      [] s = "OWNER" -> "owner"
      [] s = "Repo" -> "repo"
      [] s = "Fixes" -> "fixes"
      [] s = "RESOLVED" -> "resolved"
      [] OTHER -> s

\* The words fixe[sd]?|close[sd]?|resolve[sd]? matches (under (?i)).
FixWords ==
    {"fixe", "fixes", "fixed", "close", "closes", "closed",
     "resolve", "resolves", "resolved"}

\* ISSUE_FIX_PATTERN on one fragment: does it match, and with which groups.
IssueFixMatch(f) ==
    [matched |-> Lower(f.word) \in FixWords /\ f.space,
     owner |-> f.owner, repo |-> f.repo, num |-> f.num]

\* One iteration of the loop over ISSUE_FIX_PATTERN.finditer(pr_body).
RelatedStep(acc, f, numbers, owner, repo) ==
    LET m == IssueFixMatch(f) IN
    IF ~m.matched THEN acc
    ELSE IF /\ m.owner # "" /\ m.repo # ""
            /\ (Lower(m.owner) # Lower(owner) \/ Lower(m.repo) # Lower(repo))
         THEN acc
    ELSE IF m.num \in numbers THEN acc \cup {m.num}
    ELSE acc

RECURSIVE RelatedLoop(_, _, _, _, _)
RelatedLoop(acc, body, numbers, owner, repo) ==
    IF body = <<>> THEN acc
    ELSE RelatedLoop(RelatedStep(acc, body[1], numbers, owner, repo),
                     Tail(body), numbers, owner, repo)

\* sorted() of a set of integers.
RECURSIVE SortedOf(_)
SortedOf(S) ==
    IF S = {} THEN <<>>
    ELSE LET m == CHOOSE x \in S : \A y \in S : x <= y
         IN <<m>> \o SortedOf(S \ {m})

find_related_issues(body, numbers, owner, repo) ==
    IF body = <<>> THEN <<>>
    ELSE SortedOf(RelatedLoop({}, body, numbers, owner, repo))

(***************************************************************************)
(* Specification SpecRelated: find_related_issues on every body of at most *)
(* MaxFragments fragments and every set of known numbers.                  *)
(***************************************************************************)
MaxFragments == 2

SampleFragments ==
    { [word |-> "Fixes", space |-> TRUE, owner |-> "owner", repo |-> "repo", num |-> 42],
      [word |-> "Fixes", space |-> TRUE, owner |-> "otherowner", repo |-> "otherrepo", num |-> 42],
      [word |-> "closes", space |-> TRUE, owner |-> "", repo |-> "", num |-> 7],
      [word |-> "fix", space |-> TRUE, owner |-> "", repo |-> "", num |-> 7],
      [word |-> "fixe", space |-> TRUE, owner |-> "", repo |-> "", num |-> 3],
      [word |-> "RESOLVED", space |-> TRUE, owner |-> "OWNER", repo |-> "Repo", num |-> 7],
      [word |-> "closed", space |-> TRUE, owner |-> "owner", repo |-> "otherrepo", num |-> 3],
      [word |-> "fixed", space |-> TRUE, owner |-> "otherowner", repo |-> "repo", num |-> 3],
      [word |-> "closes", space |-> FALSE, owner |-> "", repo |-> "", num |-> 3],
      [word |-> "see", space |-> TRUE, owner |-> "", repo |-> "", num |-> 42],
      [word |-> "resolve", space |-> TRUE, owner |-> "", repo |-> "", num |-> 99] }

SampleNumbers == {3, 7, 42}

InitRelated ==
    /\ SniffIdle
    /\ SortIdle
    /\ TrackerIdle
    /\ MainIdle
    /\ CleanupIdle
    /\ ProgressIdle
    /\ pr_body \in SeqsUpTo(SampleFragments, MaxFragments)
    /\ issue_numbers \in SUBSET SampleNumbers
    /\ relOwner \in {"owner", "Owner"}
    /\ relRepo = "repo"
    /\ relpc = "in"
    /\ related = <<>>

FindRelatedIssues ==
    /\ relpc = "in"
    /\ related' = find_related_issues(pr_body, issue_numbers, relOwner, relRepo)
    /\ relpc' = "out"
    /\ UNCHANGED <<pr_body, issue_numbers, relOwner, relRepo>>
    /\ UNCHANGED <<sniffVars, sortVars, trackerVars, mainVars, cleanupVars,
                 progressVars>>

NextRelated == FindRelatedIssues

SpecRelated == InitRelated /\ [][NextRelated]_vars

\* The closing keywords: fixes, closes, resolves and their singular and
\* past-tense variants.
ClosingWords ==
    {"fix", "fixes", "fixed", "close", "closes", "closed",
     "resolve", "resolves", "resolved"}

\* A closing-keyword mention of the repository being exported: a closing
\* keyword, white space, then #n either bare or behind the repository's own
\* owner/repo, compared without regard to case.

MentionsOwnIssue(f, owner, repo) ==
    /\ Lower(f.word) \in ClosingWords
    /\ f.space
    /\ \/ f.owner = "" /\ f.repo = ""
       \/ Lower(f.owner) = Lower(owner) /\ Lower(f.repo) = Lower(repo)

\* C7: find_related_issues returns, ascending and without duplicates, exactly
\* the known issue numbers that the PR body mentions after a closing keyword,
\* bare or behind the current repository's owner/repo (case-insensitively); a
\* mention behind another repository's prefix contributes nothing.
C7_RelatedIssuesExact ==
    relpc = "out" =>
        /\ \A i, j \in 1..Len(related) : i < j => related[i] < related[j]
        /\ Range(related) =
              {n \in issue_numbers :
                  \E i \in 1..Len(pr_body) :
                      pr_body[i].num = n /\ MentionsOwnIssue(pr_body[i], relOwner, relRepo)}

(***************************************************************************)
(* File names.  A name is a sequence of one-character strings.             *)
(***************************************************************************)
DigitChars == <<"0", "1", "2", "3", "4", "5", "6", "7", "8", "9">>

\* The characters [A-Za-z0-9._-] among those the model's names use.
SafeChars ==
    {"a", "b", "c", "e", "g", "i", "j", "l", "m", "n", "p", "r", "x", "G", "N", "P"}
    \cup Range(DigitChars) \cup {".", "_", "-"}

\* str.lower() on one character of the model's alphabet.
LowerChar(c) ==
    CASE c = "G" -> "g"
      [] c = "N" -> "n"
      [] c = "P" -> "p"
      [] OTHER -> c

LowerSeq(s) == [i \in 1..Len(s) |-> LowerChar(s[i])]

\* re.sub(r"[^A-Za-z0-9._-]+", "_", name): every maximal run of other
\* characters becomes one underscore.
RECURSIVE SubUnsafe(_, _)
SubUnsafe(s, inRun) ==
    IF s = <<>> THEN <<>>
    ELSE IF s[1] \in SafeChars THEN <<s[1]>> \o SubUnsafe(Tail(s), FALSE)
    ELSE IF inRun THEN SubUnsafe(Tail(s), TRUE)
    ELSE <<"_">> \o SubUnsafe(Tail(s), TRUE)

\* str.strip("_")
RECURSIVE LStrip(_)
LStrip(s) == IF s # <<>> /\ s[1] = "_" THEN LStrip(Tail(s)) ELSE s

RECURSIVE RStrip(_)
RStrip(s) ==
    IF s # <<>> /\ s[Len(s)] = "_" THEN RStrip(SubSeq(s, 1, Len(s) - 1)) ELSE s

ImageName == <<"i", "m", "a", "g", "e">>

sanitize_name(name) ==
    LET cleaned == RStrip(LStrip(SubUnsafe(name, FALSE)))
    IN IF cleaned = <<>> THEN ImageName ELSE cleaned

\* str.rfind("."): the last dot's position, 0 when there is none.
LastDot(s) ==
    LET dots == {i \in 1..Len(s) : s[i] = "."}
    IN IF dots = {} THEN 0 ELSE CHOOSE i \in dots : \A j \in dots : j <= i

\* os.path.splitext on a base name: the extension starts at the last dot,
\* unless only dots precede it.
splitext(base) ==
    LET d == LastDot(base) IN
    IF d > 0 /\ \E i \in 1..(d - 1) : base[i] # "."
    THEN [name |-> SubSeq(base, 1, d - 1), ext |-> SubSeq(base, d, Len(base))]
    ELSE [name |-> base, ext |-> <<>>]

\* format(index, "03d"): at least three decimal digits.
RECURSIVE Decimal(_)
Decimal(n) ==
    IF n < 10 THEN <<DigitChars[n + 1]>>
    ELSE Decimal(n \div 10) \o <<DigitChars[(n % 10) + 1]>>

Pad3(n) ==
    LET d == Decimal(n)
    IN IF Len(d) >= 3 THEN d ELSE [i \in 1..(3 - Len(d)) |-> "0"] \o d

(***************************************************************************)
(* URLs.  A URL is the record of the pieces urlsplit cuts it into; the     *)
(* string it stands for is scheme host dir base ?query, so that two        *)
(* records are equal exactly when the strings are.  query is the list of   *)
(* the parameters between the & signs.                                     *)
(***************************************************************************)
EmptyUrl == [scheme |-> "", host |-> "", dir |-> "", base |-> <<>>, query |-> <<>>]

\* urlsplit raises ValueError ("Invalid IPv6 URL") on a netloc with an
\* unmatched bracket.
UrlsplitRaises(url) == url.host = "[bad"

\* netloc.lower()
LowerHost(h) == IF h = "GitHub.com" THEN "github.com" ELSE h

\* "download=1" in parsed.query
HasDownloadHint(q) == \E i \in 1..Len(q) : q[i] \in {"download=1", "download=10"}

_is_user_attachment(url) ==
    LowerHost(url.host) = "github.com" /\ url.dir = "/user-attachments/assets/"

\* Candidates that add the download hint to every URL lacking it.
_candidate_urls_any_host(url) ==
    IF ~HasDownloadHint(url.query)
    THEN <<url, [url EXCEPT !.query = Append(@, "download=1")]>>
    ELSE <<url>>

_candidate_urls(url) ==
    IF _is_user_attachment(url) /\ ~HasDownloadHint(url.query)
    THEN <<url, [url EXCEPT !.query = Append(@, "download=1")]>>
    ELSE <<url>>

\* A file name that numbers every image 001.
filename_from_url_first_index(url, index) ==
    LET base == IF url.base = <<>> THEN ImageName ELSE url.base
        parts == splitext(base)
        name == Take(sanitize_name(parts.name), 40)
        low == LowerSeq(parts.ext)
        ext == IF low = <<>> \/ Len(low) > 10 THEN <<".", "i", "m", "g">> ELSE low
    IN Pad3(1) \o <<"_">> \o name \o ext

filename_from_url(url, index) ==
    LET base == IF url.base = <<>> THEN ImageName ELSE url.base
        parts == splitext(base)
        name == Take(sanitize_name(parts.name), 40)
        low == LowerSeq(parts.ext)
        ext == IF low = <<>> \/ Len(low) > 10 THEN <<".", "i", "m", "g">> ELSE low
    IN Pad3(index) \o <<"_">> \o name \o ext

\* PurePath.suffix of a file name: from the last dot, unless the dot is the
\* first or the last character.
Suffix(name) ==
    LET d == LastDot(name)
    IN IF 1 < d /\ d < Len(name) THEN SubSeq(name, d, Len(name)) ELSE <<>>

\* PurePath.with_suffix
with_suffix(name, ext) ==
    SubSeq(name, 1, Len(name) - Len(Suffix(name))) \o ext

(***************************************************************************)
(* Paths.  A relative path is the number of leading "../", the directories *)
(* after them and the file name.                                           *)
(***************************************************************************)
NoPath == [up |-> 0, dirs |-> <<>>, file |-> <<>>]

\* The length of the longest common prefix of two directory lists.
RECURSIVE CommonLen(_, _)
CommonLen(a, b) ==
    IF a # <<>> /\ b # <<>> /\ a[1] = b[1] THEN 1 + CommonLen(Tail(a), Tail(b)) ELSE 0

\* os.path.relpath(dir/file, start).replace(os.sep, "/")
relpath(dir, file, start) ==
    LET k == CommonLen(dir, start)
    IN [up |-> Len(start) - k, dirs |-> SubSeq(dir, k + 1, Len(dir)), file |-> file]

\* rel_path.replace("../", "")
StripDotDot(p) == [p EXCEPT !.up = 0]

(***************************************************************************)
(* The file system under one assets directory: a function from the names   *)
(* of the files that exist to their content.                               *)
(***************************************************************************)
NoFiles == <<>>

Put(f, k, v) == (k :> v) @@ f

\* A rename that leaves the old name in place beside the new one.
Rename_keeps_old(f, old, new) ==
    [n \in DOMAIN f \cup {new} |-> IF n = new THEN f[old] ELSE f[n]]

\* Path.rename on POSIX: the target is replaced when it exists.
Rename(f, old, new) ==
    [n \in (DOMAIN f \ {old}) \cup {new} |-> IF n = new THEN f[old] ELSE f[n]]

(***************************************************************************)
(* Documents.  A document is an issue or a PR of a repository; repo is the *)
(* --repo argument as characters, number is str(number).                   *)
(***************************************************************************)
slugify_repo(repo) == [i \in 1..Len(repo) |-> IF repo[i] = "/" THEN "_" ELSE repo[i]]

\* out_root / slug / "issues" and out_root / slug / "prs"
MdDir(doc) ==
    <<"export", slugify_repo(doc.repo), IF doc.kind = "issue" THEN "issues" ELSE "prs">>

\* out_root / slug / "assets" / "issues" / str(num), or ".../prs/..."
AssetsDir(doc) ==
    <<"export", slugify_repo(doc.repo), "assets",
      IF doc.kind = "issue" THEN "issues" ELSE "prs", doc.number>>

\* kind.upper()
UpperKind(kind) == IF kind = "issue" THEN "ISSUE" ELSE "PR"

\* The callback that records the path as get_local returns it.
missing_cb_keeps_dotdot(missing_list, doc, url, rel_path) ==
    Append(missing_list,
           [repo |-> doc.repo,
            repo_slug |-> slugify_repo(doc.repo),
            kind |-> doc.kind,
            number |-> doc.number,
            url |-> url,
            local_path |-> rel_path,
            md_path |-> <<doc.kind, "s/", UpperKind(doc.kind), "-", doc.number, ".md">>])

\* The callback make_missing_cb(kind, number) returns, appending to missing.
missing_cb(missing_list, doc, url, rel_path) ==
    Append(missing_list,
           [repo |-> doc.repo,
            repo_slug |-> slugify_repo(doc.repo),
            kind |-> doc.kind,
            number |-> doc.number,
            url |-> url,
            local_path |-> StripDotDot(rel_path),
            md_path |-> <<doc.kind, "s/", UpperKind(doc.kind), "-", doc.number, ".md">>])

(***************************************************************************)
(* download_image.  What the network and the gh client do is the           *)
(* environment's choice env:                                               *)
(*   env.http[i]  what urlopen and the copy loop do for the i-th candidate:*)
(*                "error" (nothing written), "ok" (body written), or       *)
(*                "partial" (the file is opened, body written, then an     *)
(*                exception);                                              *)
(*   env.gh       the same for the gh client;                              *)
(*   env.rename   whether Path.rename succeeds.                            *)
(* The log records each call of download_image and each attempt it makes.  *)
(***************************************************************************)
RECURSIVE TryCandidates(_, _, _, _)
TryCandidates(fsys, file, cands, outs) ==
    IF cands = <<>> THEN [ok |-> FALSE, fs |-> fsys, log |-> <<>>]
    ELSE LET o == outs[1]
             entry == [op |-> "GET", url |-> cands[1], result |-> o.kind,
                       size |-> Len(o.body)]
         IN IF o.kind = "ok"
            THEN [ok |-> TRUE, fs |-> Put(fsys, file, o.body), log |-> <<entry>>]
            ELSE LET fs1 == IF o.kind = "partial" THEN Put(fsys, file, o.body) ELSE fsys
                     rest == TryCandidates(fs1, file, Tail(cands), Tail(outs))
                 IN [rest EXCEPT !.log = <<entry>> \o @]

\* The endpoint _download_with_gh asks for: download=1 is added when absent.
GhEndpoint(url) ==
    IF url.dir = "/user-attachments/assets/" /\ ~HasDownloadHint(url.query)
    THEN [url EXCEPT !.query = Append(@, "download=1")]
    ELSE url

_download_with_gh(fsys, url, file, o) ==
    LET entry == [op |-> "gh", url |-> GhEndpoint(url), result |-> o.kind,
                  size |-> Len(o.body)]
    IN IF o.kind = "error" THEN [ok |-> FALSE, fs |-> fsys, log |-> <<entry>>]
       ELSE [ok |-> o.kind = "ok" /\ Len(o.body) > 0,
             fs |-> Put(fsys, file, o.body),
             log |-> <<entry>>]

download_image(fsys, url, file, env) ==
    LET call == [op |-> "download_image", url |-> url, result |-> "", size |-> 0] IN
    IF file \in DOMAIN fsys THEN [ok |-> TRUE, fs |-> fsys, log |-> <<call>>]
    ELSE LET h == TryCandidates(fsys, file, _candidate_urls(url), env.http) IN
         IF h.ok THEN [h EXCEPT !.log = <<call>> \o @]
         ELSE IF _is_user_attachment(url)
         THEN LET g == _download_with_gh(h.fs, url, file, env.gh)
              IN [ok |-> g.ok, fs |-> g.fs, log |-> <<call>> \o h.log \o g.log]
         ELSE [ok |-> FALSE, fs |-> h.fs, log |-> <<call>> \o h.log]

(***************************************************************************)
(* ImageTracker.get_local.  S is the state the call reads and writes:      *)
(* the tracker's counter and url_to_rel, the shared stats and missing      *)
(* list, the assets directory and the log; ret is the value returned and   *)
(* kind tells how the call ended ("hit", "downloaded", "failed", or        *)
(* "raised" when an exception leaves get_local).                           *)
(***************************************************************************)
\* The part of get_local after the cache lookup (lines 234-262).
get_local_resolve(S, doc, url, env) ==
    LET c == S.counter + 1
        S1 == [S EXCEPT !.counter = c, !.stats.attempted = @ + 1]
    IN IF UrlsplitRaises(url) THEN [S1 EXCEPT !.ret = NoPath, !.kind = "raised"]
       ELSE
       LET file == filename_from_url(url, c)
           dl == download_image(S1.fs, url, file, env)
           S2 == [S1 EXCEPT !.fs = dl.fs, !.netlog = @ \o dl.log]
       IN IF ~dl.ok
          THEN LET rel == relpath(AssetsDir(doc), file, MdDir(doc))
               IN [S2 EXCEPT !.stats.failed = @ + 1,
                             !.url_to_rel = Put(@, url, rel),
                             !.missing = missing_cb(@, doc, url, rel),
                             !.ret = rel,
                             !.kind = "failed"]
          ELSE LET real_ext == IF LowerSeq(Suffix(file)) = ExtImg
                               THEN detect_ext_from_file(S2.fs[file], TRUE)
                               ELSE NoExt
                   renamed == real_ext # NoExt /\ env.rename
                   final == IF renamed THEN with_suffix(file, real_ext) ELSE file
                   rel == relpath(AssetsDir(doc), final, MdDir(doc))
               IN [S2 EXCEPT !.fs = IF renamed THEN Rename(@, file, final) ELSE @,
                             !.stats.downloaded = @ + 1,
                             !.url_to_rel = Put(@, url, rel),
                             !.ret = rel,
                             !.kind = "downloaded"]

get_local(S, doc, url, env) ==
    IF url \in DOMAIN S.url_to_rel
    THEN [S EXCEPT !.ret = S.url_to_rel[url], !.kind = "hit"]
    ELSE get_local_resolve(S, doc, url, env)

(***************************************************************************)
(* replace_images.  A text is the sequence of the pieces IMG_PATTERN.sub   *)
(* sees: plain text between matches and the matches.  A piece is           *)
(* [ref, parts, url]: ref tells a match from plain text, parts are the     *)
(* tokens of the piece's own text, and url is the URL group of the match.  *)
(* A token is literal text, a URL or (in the output) a local path.         *)
(***************************************************************************)
Lit(s) == [t |-> "lit", s |-> s, u |-> EmptyUrl, p |-> NoPath]
UrlTok(u) == [t |-> "url", s |-> "", u |-> u, p |-> NoPath]
PathTok(p) == [t |-> "path", s |-> "", u |-> EmptyUrl, p |-> p]

IsUrlTok(tok, url) == tok.t = "url" /\ tok.u = url

\* match.group(0).replace(url, local, 1): the first occurrence is replaced.
ReplaceFirst(parts, url, local) ==
    LET hits == {i \in 1..Len(parts) : IsUrlTok(parts[i], url)}
        first == CHOOSE i \in hits : \A j \in hits : i <= j
    IN IF hits = {} THEN parts ELSE [parts EXCEPT ![first] = PathTok(local)]

\* repl that lets every URL but a data: URL through to the tracker.
repl_keeps_data_only(url) == url = EmptyUrl \/ url.scheme = "data:"

\* The early returns of repl: the match is handed back as it is.
repl_keeps(url) ==
    \/ url = EmptyUrl
    \/ url.scheme = "data:"
    \/ url.scheme # "http://" /\ url.scheme # "https://"

(***************************************************************************)
(* Specification SpecTracker: the documents of DocList are rendered one    *)
(* after the other, each with its own ImageTracker and all with one        *)
(* ImageStats and one missing list, as process_repo does.  A document's    *)
(* texts (its body, its comments) go through replace_images, which calls   *)
(* repl once per match; at most MaxCalls texts are rendered.               *)
(***************************************************************************)
MaxCalls == 2

DocList ==
    << [repo |-> <<"o", "/", "r">>, kind |-> "issue", number |-> "5"],
       [repo |-> <<"o", "/", "r">>, kind |-> "pr", number |-> "12"] >>

\* --- sample URLs ---
\* https://github.com/user-attachments/assets/abc
UrlAttach ==
    [scheme |-> "https://", host |-> "github.com", dir |-> "/user-attachments/assets/",
     base |-> <<"a", "b", "c">>, query |-> <<>>]
\* https://GitHub.com/user-attachments/assets/abc?download=1
UrlAttachHint ==
    [scheme |-> "https://", host |-> "GitHub.com", dir |-> "/user-attachments/assets/",
     base |-> <<"a", "b", "c">>, query |-> <<"download=1">>]
\* https://example.com/user-attachments/assets/abc
UrlExample ==
    [scheme |-> "https://", host |-> "example.com", dir |-> "/user-attachments/assets/",
     base |-> <<"a", "b", "c">>, query |-> <<>>]
\* http://example.com/img/a b.PNG
UrlPng ==
    [scheme |-> "http://", host |-> "example.com", dir |-> "/img/",
     base |-> <<"a", " ", "b", ".", "P", "N", "G">>, query |-> <<>>]
\* https://[bad/x.png
UrlBad ==
    [scheme |-> "https://", host |-> "[bad", dir |-> "/",
     base |-> <<"x", ".", "p", "n", "g">>, query |-> <<>>]
\* data:image/png;base64,abc
UrlData ==
    [scheme |-> "data:", host |-> "", dir |-> "image/png;base64,",
     base |-> <<"a", "b", "c">>, query |-> <<>>]
\* ./rel.png
UrlRelative ==
    [scheme |-> "./", host |-> "", dir |-> "",
     base |-> <<"r", "e", "l", ".", "p", "n", "g">>, query |-> <<>>]
\* HTTP://example.com/img/abc
UrlUpperScheme ==
    [scheme |-> "HTTP://", host |-> "example.com", dir |-> "/img/",
     base |-> <<"a", "b", "c">>, query |-> <<>>]

\* --- sample texts ---
Plain(s) == [ref |-> FALSE, parts |-> <<Lit(s)>>, url |-> EmptyUrl]
\* ![alt](url)
MdImage(alt, url) ==
    [ref |-> TRUE, parts |-> <<Lit("!["), alt, Lit("]("), UrlTok(url), Lit(")")>>,
     url |-> url]
\* <img alt="alt" src="url">
HtmlImage(alt, url) ==
    [ref |-> TRUE,
     parts |-> <<Lit("<img alt=\""), alt, Lit("\" src=\""), UrlTok(url), Lit("\">")>>,
     url |-> url]
\* <img src="">
HtmlEmptySrc == [ref |-> TRUE, parts |-> <<Lit("<img src=\"\">")>>, url |-> EmptyUrl]

SampleTexts ==
    { <<>>,
      <<MdImage(Lit("alt"), UrlExample)>>,
      <<HtmlImage(UrlTok(UrlPng), UrlPng), Plain(" and "), HtmlImage(Lit("alt"), UrlPng)>>,
      <<HtmlImage(Lit("shot"), UrlAttach), Plain(".")>>,
      <<MdImage(Lit("d"), UrlData), HtmlImage(Lit("r"), UrlRelative), HtmlEmptySrc>>,
      <<HtmlImage(Lit("u"), UrlUpperScheme), MdImage(Lit("hint"), UrlAttachHint)>>,
      <<MdImage(Lit("alt"), UrlExample), MdImage(Lit("x"), UrlBad)>> }

\* --- what a previous run may have left in an assets directory ---
EmptyBody == <<>>
PngBody == PngSig \o <<0, 0, 0, 13>>
JunkBody == <<60, 104, 116, 109, 108, 62>>     \* b"<html>"

StaleFiles ==
    { NoFiles,
      (<<"0", "0", "1", "_", "a", "b", "c", ".", "i", "m", "g">> :> PngBody) }

\* --- the environment's choices for one call of repl ---
ErrorOut == [kind |-> "error", body |-> EmptyBody]
OkOut(b) == [kind |-> "ok", body |-> b]
PartialOut(b) == [kind |-> "partial", body |-> b]

HttpOutcomes == {ErrorOut, OkOut(EmptyBody), OkOut(PngBody), OkOut(JunkBody), PartialOut(JunkBody)}
GhOutcomes == {ErrorOut, OkOut(PngBody), OkOut(EmptyBody)}
QuietEnv == [http |-> <<ErrorOut, ErrorOut>>, gh |-> ErrorOut, rename |-> TRUE]

\* The choices that can make a difference for a first-seen URL whose file
\* is file: a later attempt is only chosen when the earlier ones fail, and
\* a failing rename only when there is content that the sniffer knows.
EnvsFor(files, url, file) ==
    LET failing == {o \in HttpOutcomes : o.kind # "ok"}
        https == IF Len(_candidate_urls(url)) = 1
                 THEN {<<o, ErrorOut>> : o \in HttpOutcomes}
                 ELSE {<<o1, o2>> : o1 \in failing, o2 \in HttpOutcomes}
                      \cup {<<o, ErrorOut>> : o \in HttpOutcomes \ failing}
        used(h) == IF Len(_candidate_urls(url)) = 1 THEN <<h[1]>> ELSE h
        ghs(h) == IF _is_user_attachment(url) /\ \A i \in 1..Len(used(h)) : h[i].kind # "ok"
                  THEN GhOutcomes ELSE {ErrorOut}
        sniffable(b) == detect_ext_from_file(b, TRUE) # NoExt
        renames(bodies) ==
            IF LowerSeq(Suffix(file)) = ExtImg /\ \E b \in bodies : sniffable(b)
            THEN BOOLEAN ELSE {TRUE}
        saved(h, g) == {o.body : o \in {x \in {h[1], h[2], g} : x.kind = "ok"}}
    IN IF file \in DOMAIN files
       THEN {[QuietEnv EXCEPT !.rename = r] : r \in renames({files[file]})}
       ELSE UNION {UNION {{[http |-> h, gh |-> g, rename |-> r] : r \in renames(saved(h, g))} :
                          g \in ghs(h)} :
                   h \in https}

\* ImageStats() and the first document's ImageTracker(...).
InitTracker ==
    /\ SniffIdle /\ SortIdle /\ RelIdle /\ MainIdle /\ CleanupIdle /\ ProgressIdle
    /\ docIdx = 1
    /\ counter = 0
    /\ url_to_rel = <<>>
    /\ stats = [attempted |-> 0, downloaded |-> 0, failed |-> 0]
    /\ missing = <<>>
    /\ fs \in StaleFiles
    /\ netlog = <<>>
    /\ calls = <<>>
    /\ text = <<>>
    /\ pos = 0
    /\ out = <<>>
    /\ tpc = "ready"
    /\ ncalls = 0

notTracker == <<sniffVars, sortVars, relVars, mainVars, cleanupVars,
                 progressVars>>

\* ImageTracker.__init__ for the next document: a fresh counter and cache,
\* another assets directory, the same stats and missing list.
NewTracker ==
    /\ tpc = "ready"
    /\ docIdx < Len(DocList)
    /\ docIdx' = docIdx + 1
    /\ counter' = 0
    /\ url_to_rel' = <<>>
    /\ fs' \in StaleFiles
    /\ netlog' = <<>>
    /\ calls' = <<>>
    /\ UNCHANGED <<stats, missing, text, pos, out, tpc, ncalls>>
    /\ UNCHANGED notTracker

\* replace_images is entered with a text; an empty text returns "" at once.
StartReplace ==
    /\ tpc = "ready"
    /\ ncalls < MaxCalls
    /\ ncalls' = ncalls + 1
    /\ \E t \in SampleTexts :
          /\ text' = t
          /\ tpc' = IF t = <<>> THEN "ready" ELSE "replacing"
    /\ pos' = 1
    /\ out' = <<>>
    /\ UNCHANGED <<docIdx, counter, url_to_rel, stats, missing, fs, netlog, calls>>
    /\ UNCHANGED notTracker

\* IMG_PATTERN.sub copies the text between two matches.
CopyText ==
    /\ tpc = "replacing"
    /\ pos <= Len(text)
    /\ ~text[pos].ref
    /\ out' = Append(out, text[pos].parts)
    /\ pos' = pos + 1
    /\ UNCHANGED <<docIdx, counter, url_to_rel, stats, missing, fs, netlog, calls,
                   text, tpc, ncalls>>
    /\ UNCHANGED notTracker

TrackerState ==
    [counter |-> counter, url_to_rel |-> url_to_rel, stats |-> stats,
     missing |-> missing, fs |-> fs, netlog |-> netlog, ret |-> NoPath, kind |-> ""]

\* repl on the next match: the match is kept, or its URL is resolved by
\* get_local and replaced in the match's text.  An exception that leaves
\* get_local leaves replace_images and its callers as well.
Repl ==
    /\ tpc = "replacing"
    /\ pos <= Len(text)
    /\ text[pos].ref
    /\ LET m == text[pos]
           url == m.url
       IN IF repl_keeps(url)
          THEN /\ out' = Append(out, m.parts)
               /\ pos' = pos + 1
               /\ UNCHANGED <<counter, url_to_rel, stats, missing, fs, netlog, calls, tpc>>
          ELSE \E env \in (IF url \in DOMAIN url_to_rel \/ UrlsplitRaises(url)
                           THEN {QuietEnv}
                           ELSE EnvsFor(fs, url, filename_from_url(url, counter + 1))) :
                  LET S == get_local(TrackerState, DocList[docIdx], url, env) IN
                  /\ counter' = S.counter
                  /\ url_to_rel' = S.url_to_rel
                  /\ stats' = S.stats
                  /\ missing' = S.missing
                  /\ fs' = S.fs
                  /\ netlog' = S.netlog
                  /\ calls' = Append(calls, [url |-> url, ret |-> S.ret, kind |-> S.kind,
                                           rename |-> env.rename])
                  /\ IF S.kind = "raised"
                     THEN /\ tpc' = "crashed"
                          /\ UNCHANGED <<out, pos>>
                     ELSE /\ out' = Append(out, ReplaceFirst(m.parts, url, S.ret))
                          /\ pos' = pos + 1
                          /\ UNCHANGED tpc
    /\ UNCHANGED <<docIdx, text, ncalls>>
    /\ UNCHANGED notTracker

\* IMG_PATTERN.sub returns the rewritten text.
FinishReplace ==
    /\ tpc = "replacing"
    /\ pos > Len(text)
    /\ tpc' = "ready"
    /\ UNCHANGED <<docIdx, counter, url_to_rel, stats, missing, fs, netlog, calls,
                   text, pos, out, ncalls>>
    /\ UNCHANGED notTracker

NextTracker == NewTracker \/ StartReplace \/ CopyText \/ Repl \/ FinishReplace

SpecTracker == InitTracker /\ [][NextTracker]_vars

(***************************************************************************)
(* Properties of get_local and replace_images, under SpecTracker.          *)
(***************************************************************************)
Last(s) == s[Len(s)]

\* The calls of download_image the current tracker made for u.
Invocations(u) ==
    {k \in DOMAIN netlog : netlog[k].op = "download_image" /\ netlog[k].url = u}

\* C1: within one tracker, for every URL and any sequence of get_local
\* calls, every call with the URL returns the path the first call with it
\* returned, and exactly one download_image call is made for the URL,
\* whether that download succeeded or failed.
C1_SamePathOneDownload ==
    /\ \A i, j \in DOMAIN calls :
          calls[i].url = calls[j].url => calls[i].ret = calls[j].ret
    /\ \A i \in DOMAIN calls : Cardinality(Invocations(calls[i].url)) = 1

\* The step is a repl call whose get_local found the URL new and whose
\* download failed.
FailedResolveStep ==
    /\ tpc = "replacing"
    /\ Len(calls') = Len(calls) + 1
    /\ Last(calls').kind = "failed"

\* A file name of the form NNN_<name><ext>, NNN the index idx.
IndexedName(file, idx) ==
    /\ Len(file) > 4
    /\ SubSeq(file, 1, 3) = Pad3(idx)
    /\ file[4] = "_"
    /\ Suffix(file) # <<>>

\* The place of the URL group in a match: in ![alt](url) and in
\* <img alt="alt" src="url"> the link target or src value is the last URL
\* of the match.
UrlGroupAt(m) ==
    CHOOSE i \in DOMAIN m.parts :
        /\ IsUrlTok(m.parts[i], m.url)
        /\ \A j \in DOMAIN m.parts : IsUrlTok(m.parts[j], m.url) => j <= i

\* The place where the URL's text first occurs in a match: the alt text
\* when it spells the URL, the link target otherwise.
FirstUrlAt(m) ==
    CHOOSE i \in DOMAIN m.parts :
        /\ IsUrlTok(m.parts[i], m.url)
        /\ \A j \in DOMAIN m.parts : IsUrlTok(m.parts[j], m.url) => i <= j

\* C2 as stated: a failed download adds one to failed, returns the path
\* NNN_<basename><ext>, makes the match's link target that path, and
\* appends one missing record whose local path is the path in the Markdown.
C2_RecordHasMarkdownPath ==
    [][FailedResolveStep =>
        LET c == Last(calls')
            m == text[pos]
        IN /\ stats'.failed = stats.failed + 1
           /\ IndexedName(c.ret.file, counter')
           /\ Last(out') = [m.parts EXCEPT ![UrlGroupAt(m)] = PathTok(c.ret)]
           /\ Len(missing') = Len(missing) + 1
           /\ Last(missing').url = c.url
           /\ Last(missing').local_path = c.ret]_vars

\* C2, amended: a failed download adds one to failed and nothing to
\* downloaded, returns the path ../assets/<kind>s/<number>/NNN_<basename><ext>,
\* puts that path where the URL's text first occurs in the match (the link
\* target, unless the alt text spells the same URL: then the alt text, and
\* the link target keeps the URL) and leaves the rest of the match and the
\* text before it alone, and appends one missing record for the URL whose
\* local path is the returned path without its leading "../".
C2_RecordHasPathBelowRepoDir ==
    [][FailedResolveStep =>
        LET c == Last(calls')
            m == text[pos]
            occurrences == {i \in DOMAIN m.parts : IsUrlTok(m.parts[i], c.url)}
        IN /\ stats'.failed = stats.failed + 1
           /\ stats'.downloaded = stats.downloaded
           /\ IndexedName(c.ret.file, counter')
           /\ c.ret.up = 1
           /\ c.url = m.url
           /\ Last(out') = [m.parts EXCEPT ![FirstUrlAt(m)] = PathTok(c.ret)]
           /\ Cardinality(occurrences) = 1 => FirstUrlAt(m) = UrlGroupAt(m)
           /\ Cardinality(occurrences) > 1 =>
                 /\ FirstUrlAt(m) < UrlGroupAt(m)
                 /\ Last(out')[UrlGroupAt(m)] = UrlTok(c.url)
           /\ SubSeq(out', 1, Len(out)) = out
           /\ Len(missing') = Len(missing) + 1
           /\ SubSeq(missing', 1, Len(missing)) = missing
           /\ Last(missing').url = c.url
           /\ Last(missing').local_path.up = 0
           /\ Last(missing').local_path.dirs = c.ret.dirs
           /\ Last(missing').local_path.file = c.ret.file]_vars

\* Two failed downloads in one document: the example URL as a link target,
\* and a URL that is its own alt text.
C2_Witness ==
    /\ tpc = "ready"
    /\ Len(calls) = 3
    /\ calls[1].kind = "failed" /\ calls[1].url = UrlExample
    /\ calls[2].kind = "failed" /\ calls[2].url = UrlPng
    /\ Len(missing) = 2
    /\ \A k \in 1..2 :
          /\ missing[k].url = calls[k].url
          /\ missing[k].local_path.up = 0
          /\ missing[k].local_path.file = calls[k].ret.file
    /\ out[1] = HtmlImage(PathTok(calls[2].ret), UrlPng).parts

\* The step is a repl call during which an HTTP request was answered with an
\* empty body (after a successful request download_image logs nothing more).
EmptyResponseStep ==
    /\ Len(netlog') > Len(netlog)
    /\ Last(netlog').op = "GET"
    /\ Last(netlog').result = "ok"
    /\ Last(netlog').size = 0

\* C3: a download whose response succeeds with an empty body counts as
\* failed: failed grows, downloaded does not, and a missing record is added.
C3_EmptyBodyIsFailure ==
    [][EmptyResponseStep =>
        /\ stats'.failed = stats.failed + 1
        /\ stats'.downloaded = stats.downloaded
        /\ Len(missing') = Len(missing) + 1
        /\ Last(missing').url = Last(calls').url]_vars

\* The step is a repl call on a match whose URL is a data: URL or does not
\* begin with http:// or https://.
NotHttp(url) == url.scheme = "data:" \/ url.scheme \notin {"http://", "https://"}

KeptMatchStep ==
    /\ tpc = "replacing"
    /\ pos <= Len(text)
    /\ text[pos].ref
    /\ text[pos].url # EmptyUrl
    /\ NotHttp(text[pos].url)
    /\ pos' = pos + 1

\* C9: a match whose URL is a data: URL or not an http(s) URL comes out of
\* replace_images as it went in, and the tracker's counter and cache, the
\* three counters, the missing list, the files and the network are untouched.
C9_NonHttpLeftAlone ==
    [][KeptMatchStep =>
        /\ out' = Append(out, text[pos].parts)
        /\ UNCHANGED <<counter, url_to_rel, stats, missing, fs, netlog, calls>>]_vars

C9_Witness ==
    /\ tpc = "replacing"
    /\ pos = 3
    /\ text[1].url = UrlUpperScheme
    /\ text[2].url = UrlAttachHint
    /\ out[1] = text[1].parts
    /\ out[2] # text[2].parts
    /\ counter = 1
    /\ stats.attempted = 2

\* The step is a repl call on a match with an http:// or https:// URL that
\* get_local resolved.
ResolvedMatchStep ==
    /\ tpc = "replacing"
    /\ pos <= Len(text)
    /\ text[pos].ref
    /\ text[pos].url.scheme \in {"http://", "https://"}
    /\ pos' = pos + 1

\* C11: a match with an absolute http(s) URL comes out of replace_images
\* with the tracker's local path where the link target or src value was and
\* the rest of the match as it went in, also when the URL occurs elsewhere
\* in the match; the text copied so far is untouched.
C11_PathAtUrlPosition ==
    [][ResolvedMatchStep =>
        LET m == text[pos] IN
        /\ Last(out') = [m.parts EXCEPT ![UrlGroupAt(m)] = PathTok(Last(calls').ret)]
        /\ SubSeq(out', 1, Len(out)) = out]_vars

\* The step is a repl call whose get_local found the URL new and whose
\* download_image found no file at the target path.
FreshDownloadStep ==
    /\ tpc = "replacing"
    /\ Len(calls') = Len(calls) + 1
    /\ Last(calls').kind \in {"downloaded", "failed"}
    /\ filename_from_url(Last(calls').url, counter') \notin DOMAIN fs

\* The attempts download_image made during the step, in order.
Attempts == Tail(SubSeq(netlog', Len(netlog) + 1, Len(netlog')))

WithHint(url) == [url EXCEPT !.query = Append(@, "download=1")]

\* C12: download_image tries the literal URL first; a second GET, of the
\* URL with download=1 added, only after the first failed and only for a
\* github.com /user-attachments/assets/ URL without download=1; the gh
\* client only last, after every GET failed, and only for a user-attachment
\* URL; nothing after a success; one attempt and no gh for any other URL.
C12_AttemptOrder ==
    [][FreshDownloadStep =>
        LET u == Last(calls').url
            A == Attempts
        IN /\ Len(netlog') > Len(netlog)
           /\ netlog'[Len(netlog) + 1].op = "download_image"
           /\ A # <<>>
           /\ A[1].op = "GET" /\ A[1].url = u
           /\ \A i \in 2..Len(A) :
                 /\ \A j \in 1..(i - 1) : A[j].op = "GET" /\ A[j].result # "ok"
                 /\ A[i].op = "GET" =>
                       /\ i = 2
                       /\ _is_user_attachment(u) /\ ~HasDownloadHint(u.query)
                       /\ A[i].url = WithHint(u)
                 /\ A[i].op = "gh" =>
                       /\ _is_user_attachment(u)
                       /\ i = Len(A)
                       /\ HasDownloadHint(u.query) \/ i = 3
           /\ ~_is_user_attachment(u) => Len(A) = 1
           /\ Last(calls').kind = "failed" =>
                 Len(A) = IF ~_is_user_attachment(u) THEN 1
                          ELSE IF HasDownloadHint(u.query) THEN 2 ELSE 3]_vars

C12_Witness ==
    /\ calls # <<>>
    /\ Last(calls).url = UrlAttach
    /\ Last(calls).kind = "downloaded"
    /\ Len(netlog) = 4
    /\ netlog[2].op = "GET" /\ netlog[2].url = UrlAttach /\ netlog[2].result = "partial"
    /\ netlog[3].op = "GET" /\ netlog[3].url = WithHint(UrlAttach)
    /\ netlog[3].result = "error"
    /\ netlog[4].op = "gh" /\ netlog[4].result = "ok"

\* The step is a repl call whose get_local found the URL new, saved (or
\* found) the file under the placeholder extension and did not fail.
PlaceholderSavedStep ==
    /\ tpc = "replacing"
    /\ Len(calls') = Len(calls) + 1
    /\ Last(calls').kind # "hit"
    /\ Last(calls').kind # "failed"
    /\ Last(calls').kind # "raised"
    /\ Suffix(filename_from_url(Last(calls').url, counter')) = ExtImg

\* The extension the magic bytes of d call for, NoExt when they name none.
SniffedExt(d) ==
    IF IsPng(d) THEN ExtPng
    ELSE IF IsJpeg(d) THEN ExtJpg
    ELSE IF IsGif(d) THEN ExtGif
    ELSE IF IsWebp(d) THEN ExtWebp
    ELSE NoExt

\* C13: after a download saved under the placeholder extension, get_local
\* returns and caches the path of the file as it is on disk: under the
\* sniffed extension when the file was renamed, which happens only when the
\* content names a format, and under the placeholder extension otherwise,
\* the file then being where it was saved; the file is renamed exactly
\* when the content names a format and the rename succeeds; the download
\* counts as downloaded, not failed, and replace_images goes on.
C13_ReturnedPathIsOnDisk ==
    [][PlaceholderSavedStep =>
        LET c == Last(calls')
            saved == filename_from_url(c.url, counter')
            final == c.ret.file
        IN /\ final \in DOMAIN fs'
           /\ c.ret = relpath(AssetsDir(DocList[docIdx]), final, MdDir(DocList[docIdx]))
           /\ url_to_rel'[c.url] = c.ret
           /\ \/ /\ final = saved
                 /\ Suffix(final) = ExtImg
              \/ /\ SniffedExt(fs'[final]) # NoExt
                 /\ final = with_suffix(saved, SniffedExt(fs'[final]))
                 /\ saved \notin DOMAIN fs'
           /\ SniffedExt(fs'[final]) = NoExt => final = saved
           /\ final # saved <=> (SniffedExt(fs'[final]) # NoExt /\ c.rename)
           /\ stats'.downloaded = stats.downloaded + 1
           /\ stats'.failed = stats.failed
           /\ Len(missing') = Len(missing)
           /\ tpc' = "replacing"
           /\ pos' = pos + 1]_vars

\* One tracker has renamed a sniffed file, has kept a sniffed file under
\* the placeholder extension because the rename failed, both in one state.
C13_Witness ==
    /\ Len(calls) = 2
    /\ calls[1].kind = "downloaded" /\ calls[2].kind = "downloaded"
    /\ Suffix(calls[1].ret.file) = ExtPng
    /\ Suffix(calls[2].ret.file) = ExtImg
    /\ calls[2].ret.file \in DOMAIN fs
    /\ IsPng(fs[calls[2].ret.file])
    /\ Suffix(filename_from_url(calls[1].url, 1)) = ExtImg

\* The step is a repl call that called get_local.
GetLocalStep ==
    /\ tpc = "replacing"
    /\ Len(calls') = Len(calls) + 1

\* C15: after every get_local call, on whichever tracker shares the stats,
\* attempted = downloaded + failed; a call with a first-seen URL adds one to
\* attempted and one to exactly one of downloaded and failed; a cache hit
\* changes none of the three.
C15_StatsBalance ==
    [][GetLocalStep =>
        LET c == Last(calls') IN
        /\ stats'.attempted = stats'.downloaded + stats'.failed
        /\ c.url \in DOMAIN url_to_rel => stats' = stats
        /\ c.url \notin DOMAIN url_to_rel =>
              /\ stats'.attempted = stats.attempted + 1
              /\ \/ /\ stats'.downloaded = stats.downloaded + 1
                    /\ stats'.failed = stats.failed
                 \/ /\ stats'.downloaded = stats.downloaded
                    /\ stats'.failed = stats.failed + 1]_vars

\* The get_local calls of the current tracker that resolved a first-seen
\* URL, by their place in calls.
FirstSeen == {i \in DOMAIN calls : calls[i].kind \in {"downloaded", "failed"}}

\* C16: in one tracker the k-th distinct URL resolved, downloads that
\* failed counted too, has a file name that begins with the index k in
\* three digits and an underscore, and two distinct URLs never have the
\* same local path, whether or not they share a basename and whether or not
\* a file was renamed after sniffing.
C16_IndexPerDistinctUrl ==
    /\ \A i \in FirstSeen :
          LET k == Cardinality({j \in FirstSeen : j <= i})
              file == calls[i].ret.file
          IN /\ Len(file) > 4
             /\ SubSeq(file, 1, 3) = Pad3(k)
             /\ file[4] = "_"
             /\ calls[i].url \in DOMAIN url_to_rel
             /\ url_to_rel[calls[i].url] = calls[i].ret
    /\ \A i, j \in FirstSeen : i # j => calls[i].url # calls[j].url
    /\ DOMAIN url_to_rel = {calls[i].url : i \in FirstSeen}
    /\ \A u, v \in DOMAIN url_to_rel : u # v => url_to_rel[u] # url_to_rel[v]

\* Two URLs with one basename, resolved by one tracker, both files renamed
\* after sniffing.
C16_Witness ==
    /\ Len(calls) = 2
    /\ calls[1].url = UrlAttach
    /\ calls[2].url = UrlExample
    /\ calls[1].url.base = calls[2].url.base
    /\ calls[1].ret.file = <<"0", "0", "1", "_", "a", "b", "c", ".", "p", "n", "g">>
    /\ calls[2].ret.file = <<"0", "0", "2", "_", "a", "b", "c", ".", "p", "n", "g">>

(***************************************************************************)
(* main and process_repo.  The raw directory of a repository holds         *)
(* issues.json and prs.json; the content of each is                        *)
(*   "absent"   no such file,                                              *)
(*   "invalid"  a file that is not JSON (json.load raises),                *)
(*   "object"   JSON that is not an array,                                 *)
(*   "list"     a JSON array, whose items are [number, pull_request].      *)
(* The items carry no image references, so that rendering one writes its   *)
(* Markdown file and nothing else.                                         *)
(***************************************************************************)
RawFile(kind, items) == [kind |-> kind, items |-> items]

RawItem(number, pull_request) == [number |-> number, pull_request |-> pull_request]

\* A progress check that prints whenever the percentage has changed.
maybe_log_progress_every_percent(done, total, last) ==
    IF total = 0 THEN [print |-> FALSE, percent |-> 0, last |-> last]
    ELSE LET percent == (done * 100) \div total IN
         IF percent # last
         THEN [print |-> TRUE, percent |-> percent, last |-> percent]
         ELSE [print |-> FALSE, percent |-> percent, last |-> last]

\* maybe_log_progress with processed = done, total_items = total and
\* last_percent = last: whether it prints, the percentage, and the new
\* last_percent.  int((processed / total_items) * 100) is the floor of the
\* exact quotient for every total below 50 (for 29 of 50 the float product
\* is 57.99...).  Python's // is the floor, as \div is.
maybe_log_progress(done, total, last) ==
    IF total = 0 THEN [print |-> FALSE, percent |-> 0, last |-> last]
    ELSE LET percent == (done * 100) \div total IN
         IF percent \div 5 # last \div 5
         THEN [print |-> TRUE, percent |-> percent, last |-> percent]
         ELSE [print |-> FALSE, percent |-> percent, last |-> last]

\* maybe_log_progress after each of the items k..total, from last_percent
\* = last: the lines it prints.
RECURSIVE ProgressLines(_, _, _, _)
ProgressLines(repo, k, total, last) ==
    IF k > total THEN <<>>
    ELSE LET r == maybe_log_progress(k, total, last) IN
         IF r.print
         THEN <<[line |-> "progress", repo |-> repo, percent |-> r.percent,
                 processed |-> k, total |-> total]>>
              \o ProgressLines(repo, k + 1, total, r.last)
         ELSE ProgressLines(repo, k + 1, total, r.last)

\* load_json raises on a file that is not JSON.
load_json_raises(f) == f.kind = "invalid"

\* process_repo(repo, raw_root, out_root, token) on the raw directory dir:
\* what it writes to stderr and stdout, the documents it renders in order,
\* and whether it ends in an exception.
process_repo(repo, dir) ==
    LET nothing == [err |-> <<>>, out |-> <<>>, rendered |-> <<>>, raised |-> FALSE]
        IsIssue(i) == ~i.pull_request
        issues == SelectSeq(dir.issues.items, IsIssue)
        prs == dir.prs.items
        n_items == Len(issues) + Len(prs)
    IN IF dir.issues.kind = "absent" \/ dir.prs.kind = "absent"
       THEN [nothing EXCEPT !.err = <<[error |-> "missing raw files", repo |-> repo]>>]
       ELSE IF load_json_raises(dir.issues) \/ load_json_raises(dir.prs)
       THEN [nothing EXCEPT !.raised = TRUE]
       ELSE IF dir.issues.kind # "list"
       THEN [nothing EXCEPT !.err = <<[error |-> "issues not a list", repo |-> repo]>>]
       ELSE IF dir.prs.kind # "list"
       THEN [nothing EXCEPT !.err = <<[error |-> "prs not a list", repo |-> repo]>>]
       ELSE [err |-> <<>>,
             out |-> ProgressLines(repo, 1, n_items, -1)
                     \o <<[line |-> "images", repo |-> repo, percent |-> 0,
                           processed |-> 0, total |-> 0]>>,
             rendered |->
                 [k \in 1..Len(issues) |->
                     [repo |-> repo, kind |-> "issue", number |-> issues[k].number]]
                 \o [k \in 1..Len(prs) |->
                     [repo |-> repo, kind |-> "pr", number |-> prs[k].number]],
             raised |-> FALSE]

(***************************************************************************)
(* Specification SpecMain: main on every command line of at most MaxArgs   *)
(* --repo arguments from SampleRepos, over every raw directory built from  *)
(* SampleRaw.  One action is one turn of the loop over args.repo.          *)
(***************************************************************************)
MaxArgs == 2

RepoA == <<"o", "/", "a">>
RepoB == <<"o", "/", "b">>
RepoBad == <<"b", "a", "d">>

SampleRepos == {RepoA, RepoB, RepoBad}

SampleItems == <<RawItem(1, FALSE), RawItem(2, TRUE), RawItem(3, FALSE)>>

SampleRaw ==
    { [issues |-> RawFile("absent", <<>>), prs |-> RawFile("list", <<>>)],
      [issues |-> RawFile("list", SampleItems), prs |-> RawFile("absent", <<>>)],
      [issues |-> RawFile("invalid", <<>>), prs |-> RawFile("list", <<>>)],
      [issues |-> RawFile("list", SampleItems), prs |-> RawFile("invalid", <<>>)],
      [issues |-> RawFile("object", <<>>), prs |-> RawFile("list", <<>>)],
      [issues |-> RawFile("list", SampleItems), prs |-> RawFile("object", <<>>)],
      [issues |-> RawFile("list", <<>>), prs |-> RawFile("list", <<>>)],
      [issues |-> RawFile("list", SampleItems),
       prs |-> RawFile("list", <<RawItem(2, FALSE)>>)] }

InitMain ==
    /\ SniffIdle /\ SortIdle /\ RelIdle /\ TrackerIdle /\ CleanupIdle /\ ProgressIdle
    /\ argv \in {s \in SeqsUpTo(SampleRepos, MaxArgs) : s # <<>>}
    /\ raw \in [{slugify_repo(RepoA), slugify_repo(RepoB)} -> SampleRaw]
    /\ argi = 1
    /\ mpc = "loop"
    /\ stderr = <<>>
    /\ stdout = <<>>
    /\ rendered = <<>>
    /\ visits = <<>>
    /\ rc = -1

notMain == <<sniffVars, sortVars, relVars, trackerVars, cleanupVars, progressVars>>

\* if "/" not in repo: eprint(...); return 1
MainInvalid ==
    /\ mpc = "loop"
    /\ argi <= Len(argv)
    /\ "/" \notin Range(argv[argi])
    /\ stderr' = Append(stderr, [error |-> "invalid repo format", repo |-> argv[argi]])
    /\ rc' = 1
    /\ mpc' = "halted"
    /\ UNCHANGED <<argv, argi, raw, stdout, rendered, visits>>
    /\ UNCHANGED notMain

\* process_repo(repo, raw_root, out_root, token); an exception it raises
\* ends the interpreter with a traceback.
MainProcessRepo ==
    /\ mpc = "loop"
    /\ argi <= Len(argv)
    /\ "/" \in Range(argv[argi])
    /\ LET r == process_repo(argv[argi], raw[slugify_repo(argv[argi])]) IN
       /\ visits' = Append(visits, argv[argi])
       /\ stdout' = stdout \o r.out
       /\ rendered' = rendered \o r.rendered
       /\ IF r.raised
          THEN /\ stderr' = Append(stderr, [error |-> "traceback", repo |-> argv[argi]])
               /\ mpc' = "crashed"
               /\ rc' = 1
               /\ argi' = argi
          ELSE /\ stderr' = stderr \o r.err
               /\ mpc' = mpc
               /\ rc' = rc
               /\ argi' = argi + 1
    /\ UNCHANGED <<argv, raw>>
    /\ UNCHANGED notMain

\* return 0
MainReturn ==
    /\ mpc = "loop"
    /\ argi > Len(argv)
    /\ rc' = 0
    /\ mpc' = "returned"
    /\ UNCHANGED <<argv, argi, raw, stderr, stdout, rendered, visits>>
    /\ UNCHANGED notMain

NextMain == MainInvalid \/ MainProcessRepo \/ MainReturn

SpecMain == InitMain /\ [][NextMain]_vars

\* C4: when the run halts on a repository argument without "/", no
\* repository has been processed and nothing has been written.
C4_HaltBeforeAnyProcessing ==
    mpc = "halted" => (visits = <<>> /\ rendered = <<>> /\ stdout = <<>>)

BadRaw(dir) == dir.issues.kind # "list" \/ dir.prs.kind # "list"

ErrorsFor(repo) ==
    {i \in 1..Len(stderr) : stderr[i].repo = repo /\ stderr[i].error # "traceback"}

\* C5: a repository whose issues.json or prs.json is absent or is not a JSON
\* array gets an error message, has no item rendered, and does not stop the
\* run: main goes on to the next argument.
C5_BadRawSkipsRepoOnly ==
    \A i \in 1..Len(visits) :
        BadRaw(raw[slugify_repo(visits[i])]) =>
            /\ ErrorsFor(visits[i]) # {}
            /\ \A k \in 1..Len(rendered) : rendered[k].repo # visits[i]
            /\ mpc # "crashed"
            /\ argi > i

(***************************************************************************)
(* Specification SpecProgress: the two item loops of process_repo on a     *)
(* repository of at most MaxItems items.  One action is one turn of a      *)
(* loop: the item is rendered, processed grows by one and                  *)
(* maybe_log_progress is called.                                           *)
(***************************************************************************)
MaxItems == 30

InitProgress ==
    /\ SniffIdle /\ SortIdle /\ RelIdle /\ TrackerIdle /\ MainIdle /\ CleanupIdle
    /\ total_items \in 0..MaxItems
    /\ processed = 0
    /\ last_percent = -1
    /\ progress = <<>>

ItemDone ==
    /\ processed < total_items
    /\ processed' = processed + 1
    /\ LET r == maybe_log_progress(processed + 1, total_items, last_percent) IN
       /\ last_percent' = r.last
       /\ progress' = IF r.print
                      THEN Append(progress, [percent |-> r.percent,
                                             processed |-> processed + 1])
                      ELSE progress
    /\ UNCHANGED total_items
    /\ UNCHANGED <<sniffVars, sortVars, relVars, trackerVars, mainVars, cleanupVars>>

NextProgress == ItemDone

SpecProgress == InitProgress /\ [][NextProgress]_vars

\* The 5% bucket of a percentage.
Bucket(pct) == pct \div 5

\* floor(100 * done / total), as the greatest q with q * total <= 100 * done.
FloorPercent(done, total) ==
    CHOOSE q \in 0..100 : q * total <= 100 * done /\ (q + 1) * total > 100 * done

\* C14: a progress line is printed after an item only when the percentage
\* floor(100 * processed / total) lies in another 5% bucket than the last
\* printed percentage; the printed lines have strictly increasing buckets,
\* so there is at most one line per bucket and there are at most 21 lines;
\* nothing is printed for a repository without items.
C14_OneLinePerBucket ==
    /\ \A i \in 1..Len(progress) :
          /\ progress[i].percent = FloorPercent(progress[i].processed, total_items)
          /\ i > 1 => Bucket(progress[i].percent) > Bucket(progress[i - 1].percent)
          /\ i > 1 => progress[i].processed > progress[i - 1].processed
          /\ Bucket(progress[i].percent) \in 0..20
    /\ Len(progress) <= 21
    /\ total_items = 0 => progress = <<>>
    /\ progress # <<>> => last_percent = progress[Len(progress)].percent
    /\ progress = <<>> => last_percent = -1

\* A repository of more than 20 items, fully rendered: some items printed
\* no line, and the last line says 100%.
C14_Witness ==
    /\ total_items > 20
    /\ processed = total_items
    /\ Len(progress) < processed
    /\ Len(progress) > 15
    /\ progress[Len(progress)].percent = 100

(***************************************************************************)
(* cleanup_img_ext.main.  The export root holds one repository directory   *)
(* with one assets directory (a function from file names to contents) and  *)
(* Markdown files beside it, laid out as the exporter writes them.  A      *)
(* Markdown file is a sequence of tokens: literal ASCII text, a line       *)
(* ending, a maximal run of bytes outside ASCII (data, a sequence of       *)
(* numbers), or a path                                                     *)
(*   [form, glued, file]                                                   *)
(* where form tells how the path is written ("mdrel": relative to the      *)
(* Markdown file's directory, as the exporter writes it; "rootrel":        *)
(* relative to the export root), file is the file name, and glued tells    *)
(* that the path follows characters such as "](" without white space or a  *)
(* quote between, so that the script's pattern matches them with the path. *)
(* The text the script works on is the decoded file: there a run of bytes  *)
(* is a run of characters (data, the sequence of their code points).       *)
(***************************************************************************)
CLit(s) ==
    [t |-> "lit", s |-> s, form |-> "", glued |-> FALSE, file |-> <<>>, data |-> <<>>]
CRef(form, glued, file) ==
    [t |-> "ref", s |-> "", form |-> form, glued |-> glued, file |-> file, data |-> <<>>]
CNewline(s) ==
    [t |-> "nl", s |-> s, form |-> "", glued |-> FALSE, file |-> <<>>, data |-> <<>>]
CBytes(bytes) ==
    [t |-> "bytes", s |-> "", form |-> "", glued |-> FALSE, file |-> <<>>, data |-> bytes]
CChars(codes) ==
    [t |-> "chars", s |-> "", form |-> "", glued |-> FALSE, file |-> <<>>, data |-> codes]

LF == "\n"
CRLF == "\r\n"
CR == "\r"
\* U+FFFD, the replacement character.
ReplacementCodePoint == 65533

Drop(s, n) == SubSeq(s, n + 1, Len(s))

\* bytes.decode("utf-8", errors="replace"): a well-formed sequence gives its
\* code point; otherwise the longest beginning of a well-formed sequence (or
\* one byte) gives U+FFFD, and decoding goes on behind it.
RECURSIVE utf8_decode(_)
utf8_decode(b) ==
    IF b = <<>> THEN <<>>
    ELSE
    LET n == Len(b)
        b1 == b[1]
        cont(i) == i <= n /\ b[i] \in 128..191
        second(lo, hi) == n >= 2 /\ b[2] \in lo..hi
        bad(k) == <<ReplacementCodePoint>> \o utf8_decode(Drop(b, k))
    IN IF b1 < 128 THEN <<b1>> \o utf8_decode(Drop(b, 1))
       ELSE IF b1 \in 194..223
       THEN IF cont(2)
            THEN <<(b1 - 192) * 64 + (b[2] - 128)>> \o utf8_decode(Drop(b, 2))
            ELSE bad(1)
       ELSE IF b1 \in 224..239
       THEN IF ~second(IF b1 = 224 THEN 160 ELSE 128, IF b1 = 237 THEN 159 ELSE 191)
            THEN bad(1)
            ELSE IF ~cont(3) THEN bad(2)
            ELSE <<(b1 - 224) * 4096 + (b[2] - 128) * 64 + (b[3] - 128)>>
                 \o utf8_decode(Drop(b, 3))
       ELSE IF b1 \in 240..244
       THEN IF ~second(IF b1 = 240 THEN 144 ELSE 128, IF b1 = 244 THEN 143 ELSE 191)
            THEN bad(1)
            ELSE IF ~cont(3) THEN bad(2)
            ELSE IF ~cont(4) THEN bad(3)
            ELSE <<(b1 - 240) * 262144 + (b[2] - 128) * 4096 + (b[3] - 128) * 64
                   + (b[4] - 128)>> \o utf8_decode(Drop(b, 4))
       ELSE bad(1)

\* str.encode("utf-8") of the characters with the code points codes.
RECURSIVE utf8_encode(_)
utf8_encode(codes) ==
    IF codes = <<>> THEN <<>>
    ELSE
    LET c == codes[1]
        head == IF c < 128 THEN <<c>>
                ELSE IF c < 2048 THEN <<192 + (c \div 64), 128 + (c % 64)>>
                ELSE IF c < 65536
                THEN <<224 + (c \div 4096), 128 + ((c \div 64) % 64), 128 + (c % 64)>>
                ELSE <<240 + (c \div 262144), 128 + ((c \div 4096) % 64),
                       128 + ((c \div 64) % 64), 128 + (c % 64)>>
    IN head \o utf8_encode(Tail(codes))

\* md.read_text(encoding="utf-8", errors="replace"): the bytes are decoded,
\* what is not UTF-8 becomes U+FFFD, and every line ending becomes "\n".
read_text(md) ==
    [i \in 1..Len(md) |->
        IF md[i].t = "nl" THEN CNewline(LF)
        ELSE IF md[i].t = "bytes" THEN CChars(utf8_decode(md[i].data))
        ELSE md[i]]

\* md.write_text(updated, encoding="utf-8"): the characters are encoded and
\* "\n" is written as the line separator of the system, "\n" itself on the
\* POSIX systems modelled here.
write_text(updated) ==
    [i \in 1..Len(updated) |->
        IF updated[i].t = "chars" THEN CBytes(utf8_encode(updated[i].data))
        ELSE updated[i]]

EndsWith(s, e) == Len(s) >= Len(e) /\ SubSeq(s, Len(s) - Len(e) + 1, Len(s)) = e

\* ext_candidates, in the order the script tries them.
ext_candidates == <<ExtPng, ExtJpg, ExtJpeg, ExtGif, ExtWebp>>

\* The first loop: every *.img file whose type the sniffer finds is renamed,
\* unless the rename raises (the files in fails).  The result is the new
\* directory and the rewrites dictionary, here old name -> new name.
RenamedImgs(files, fails) ==
    {n \in DOMAIN files :
        EndsWith(n, ExtImg) /\ detect_ext(files[n], TRUE) # NoExt /\ n \notin fails}

NewName(files, n) == with_suffix(n, detect_ext(files[n], TRUE))

RenameLoop(files, fails) ==
    LET moved == RenamedImgs(files, fails)
        targets == {NewName(files, n) : n \in moved}
    IN [n \in (DOMAIN files \ moved) \cup targets |->
            IF n \in targets
            THEN files[CHOOSE o \in moved : NewName(files, o) = n]
            ELSE files[n]]

\* updated.replace(old_rel, new_rel) for every entry of rewrites: old_rel is
\* relative to the export root, so it occurs in the root-relative paths.
ApplyRewrites(md, files, fails) ==
    [i \in 1..Len(md) |->
        IF /\ md[i].t = "ref" /\ md[i].form = "rootrel"
           /\ md[i].file \in RenamedImgs(files, fails)
        THEN [md[i] EXCEPT !.file = NewName(files, md[i].file)]
        ELSE md[i]]

\* candidate_base.name.split("_", 1)[0] + "_"
NumericPrefix(name) ==
    LET us == {i \in 1..Len(name) : name[i] = "_"}
        k == IF us = {} THEN Len(name) + 1 ELSE CHOOSE i \in us : \A j \in us : i <= j
    IN SubSeq(name, 1, k - 1) \o <<"_">>

\* The files the fallback accepts for a reference to name.
PrefixMatches(files, name) ==
    {f \in DOMAIN files :
        /\ StartsWith(f, NumericPrefix(name))
        /\ \E e \in 1..Len(ext_candidates) : LowerSeq(Suffix(f)) = ext_candidates[e]}

\* The repair that accepts the first candidate extension without looking
\* for the file.
RepairTarget_unchecked(files, name, rank) == with_suffix(name, ext_candidates[1])

\* What the second loop makes of a reference to name that it can resolve:
\* the same stem with the first candidate extension that exists, else a file
\* with the same numeric prefix (the first one iterdir yields: the one rank
\* puts first), else the name itself.
RepairTarget(files, name, rank) ==
    LET exts == {e \in 1..Len(ext_candidates) :
                    with_suffix(name, ext_candidates[e]) \in DOMAIN files}
        pm == PrefixMatches(files, name)
    IN IF exts # {}
       THEN with_suffix(name, ext_candidates[CHOOSE e \in exts : \A d \in exts : e <= d])
       ELSE IF pm # {}
       THEN CHOOSE f \in pm : \A g \in pm : rank[f] <= rank[g]
       ELSE name

\* The matches of the pattern that resolve to a place in the assets
\* directory: the paths relative to the Markdown file that stand free.
Resolvable(md) ==
    {md[i].file : i \in {j \in 1..Len(md) :
        /\ md[j].t = "ref" /\ md[j].form = "mdrel" /\ ~md[j].glued
        /\ EndsWith(md[j].file, ExtImg)}}

\* updated.replace(rel_path, new_rel) for every match: all occurrences of
\* the matched path change, the glued ones too.
RepairRefs(md, files, rank) ==
    [i \in 1..Len(md) |->
        IF /\ md[i].t = "ref" /\ md[i].form = "mdrel"
           /\ md[i].file \in Resolvable(md)
        THEN [md[i] EXCEPT !.file = RepairTarget(files, md[i].file, rank)]
        ELSE md[i]]

\* The body of the loop over the Markdown files: the file is read, the
\* references in its text are updated, and the text is written back when
\* it differs from the text read.
UpdateMarkdown(md, files, files1, fails, rank) ==
    LET decoded == read_text(md)
        updated == RepairRefs(ApplyRewrites(decoded, files, fails), files1, rank)
    IN IF updated # decoded THEN write_text(updated) ELSE md

\* main: the rename loop, then every Markdown file.
cleanup_main(files, mds, fails, rank) ==
    LET files1 == RenameLoop(files, fails)
    IN [files |-> files1,
        mds |-> [k \in 1..Len(mds) |->
                    UpdateMarkdown(mds[k], files, files1, fails, rank)]]

(***************************************************************************)
(* Specification SpecCleanup: one run of the cleanup on every directory    *)
(* made of SampleFiles and at most MaxMdFiles texts of SampleMarkdown.     *)
(***************************************************************************)
MaxMdFiles == 2

GifBody == Gif89a \o <<1, 0, 1, 0>>

SampleFiles ==
    { <<<<"0", "0", "1", "_", "a", "b", "c", ".", "i", "m", "g">>, PngBody>>,
      <<<<"0", "0", "1", "_", "a", "b", "c", ".", "p", "n", "g">>, PngBody>>,
      <<<<"0", "0", "1", "_", "a", "b", "c", ".", "g", "i", "f">>, GifBody>>,
      <<<<"0", "0", "2", "_", "j", ".", "j", "p", "g">>, JunkBody>>,
      <<<<"0", "0", "3", "_", "j", ".", "i", "m", "g">>, JunkBody>> }

DirOf(pairs) == [n \in {p[1] : p \in pairs} |-> (CHOOSE p \in pairs : p[1] = n)[2]]

Name1Img == <<"0", "0", "1", "_", "a", "b", "c", ".", "i", "m", "g">>
Name1Png == <<"0", "0", "1", "_", "a", "b", "c", ".", "p", "n", "g">>
Name2Img == <<"0", "0", "1", "_", "o", ".", "i", "m", "g">>
Name3Img == <<"0", "0", "3", "_", "j", ".", "i", "m", "g">>

SampleMarkdown ==
    { <<CLit("no image"), CNewline(CRLF), CBytes(<<255>>)>>,
      <<CLit("!["), CLit("alt"), CRef("mdrel", TRUE, Name1Img), CLit(")")>>,
      <<CLit("<img src=\""), CRef("mdrel", FALSE, Name1Img), CLit("\">"), CNewline(CRLF),
        CRef("mdrel", TRUE, Name1Img), CBytes(<<255, 254, 239, 191, 189>>), CNewline(LF),
        CLit("caf"), CBytes(<<195, 169>>)>>,
      <<CLit("<img src=\""), CRef("mdrel", FALSE, Name2Img), CLit("\">"), CNewline(CR),
        CBytes(<<226, 130, 195, 169, 240, 159, 150, 188>>)>>,
      <<CLit("<img src=\""), CRef("rootrel", FALSE, Name1Img), CLit("\">")>>,
      <<CRef("mdrel", FALSE, Name3Img), CLit(" "), CRef("mdrel", FALSE, Name1Png),
        CNewline(CRLF)>> }

Rankings(files) ==
    {r \in [DOMAIN files -> 1..Cardinality(DOMAIN files)] :
        \A f, g \in DOMAIN files : r[f] = r[g] => f = g}

InitCleanup ==
    /\ SniffIdle /\ SortIdle /\ RelIdle /\ TrackerIdle /\ MainIdle /\ ProgressIdle
    /\ \E pairs \in SUBSET SampleFiles : cfiles = DirOf(pairs)
    /\ cmds \in {s \in SeqsUpTo(SampleMarkdown, MaxMdFiles) : s # <<>>}
    /\ cfiles0 = cfiles
    /\ cmds0 = cmds
    /\ cpc = "start"

Cleanup ==
    /\ cpc = "start"
    /\ \E fails \in SUBSET {n \in DOMAIN cfiles : EndsWith(n, ExtImg)} :
       \E rank \in Rankings(RenameLoop(cfiles, fails)) :
          LET r == cleanup_main(cfiles, cmds, fails, rank) IN
          /\ cfiles' = r.files
          /\ cmds' = r.mds
    /\ cpc' = "done"
    /\ UNCHANGED <<cfiles0, cmds0>>
    /\ UNCHANGED <<sniffVars, sortVars, relVars, trackerVars, mainVars, progressVars>>

NextCleanup == Cleanup

SpecCleanup == InitCleanup /\ [][NextCleanup]_vars

NoImgFiles(files) == \A n \in DOMAIN files : ~EndsWith(n, ExtImg)

HasImgRef(md) == \E i \in 1..Len(md) : md[i].t = "ref" /\ EndsWith(md[i].file, ExtImg)

\* C10 as stated: on a directory without .img files the cleanup renames no
\* file and leaves every Markdown file as it was, whatever it contains.
C10_NoImgFilesNoChange ==
    (cpc = "done" /\ NoImgFiles(cfiles0)) => (cfiles = cfiles0 /\ cmds = cmds0)

\* The only name the claim allows in place of a stale reference to name:
\* the same stem with the first of the candidate extensions for which the
\* file exists, or, when there is none, a file of the directory that shares
\* the numeric prefix and has a candidate extension.
StaleRefTarget(files, name, new) ==
    LET exts == {e \in 1..Len(ext_candidates) :
                    with_suffix(name, ext_candidates[e]) \in DOMAIN files}
    IN IF exts # {}
       THEN \E e \in exts :
               /\ new = with_suffix(name, ext_candidates[e])
               /\ \A d \in exts : e <= d
       ELSE /\ new \in DOMAIN files
            /\ StartsWith(new, NumericPrefix(name))
            /\ \E e \in 1..Len(ext_candidates) : LowerSeq(Suffix(new)) = ext_candidates[e]

\* The well-formed UTF-8 byte sequences of one character: the length, the
\* range of the first byte and the range of the second; every further byte
\* is in 128..191.
Utf8Rows ==
    { [len |-> 1, first |-> 0..127, second |-> {}],
      [len |-> 2, first |-> 194..223, second |-> 128..191],
      [len |-> 3, first |-> {224}, second |-> 160..191],
      [len |-> 3, first |-> (225..236) \cup (238..239), second |-> 128..191],
      [len |-> 3, first |-> {237}, second |-> 128..159],
      [len |-> 4, first |-> {240}, second |-> 144..191],
      [len |-> 4, first |-> 241..243, second |-> 128..191],
      [len |-> 4, first |-> {244}, second |-> 128..143] }

FitsRow(c, r) ==
    /\ c[1] \in r.first
    /\ Len(c) >= 2 => c[2] \in r.second
    /\ \A i \in 3..Len(c) : c[i] \in 128..191

\* c is the encoding of one character; p is a proper beginning of one.
WellFormedChar(c) == \E r \in Utf8Rows : Len(c) = r.len /\ FitsRow(c, r)
BeginsChar(p) == \E r \in Utf8Rows : Len(p) < r.len /\ FitsRow(p, r)

\* The bytes with every maximal ill-formed stretch replaced by EF BF BD
\* and every well-formed character kept.
RECURSIVE Scrubbed(_)
Scrubbed(b) ==
    IF b = <<>> THEN <<>>
    ELSE
    LET whole == {k \in 1..Len(b) : WellFormedChar(SubSeq(b, 1, k))}
        begun == {k \in 1..Len(b) : BeginsChar(SubSeq(b, 1, k))}
        k == IF whole # {} THEN CHOOSE x \in whole : TRUE
             ELSE IF begun # {} THEN CHOOSE x \in begun : \A y \in begun : y <= x
             ELSE 1
    IN (IF whole # {} THEN SubSeq(b, 1, k) ELSE <<239, 191, 189>>)
       \o Scrubbed(SubSeq(b, k + 1, Len(b)))

\* What a rewritten file holds for a token that is not a replaced path:
\* every line ending is "\n", bytes outside ASCII are kept where they are
\* UTF-8 and are EF BF BD where they are not, and the rest is as it was.
Normalised(tok) ==
    IF tok.t = "nl" THEN CNewline(LF)
    ELSE IF tok.t = "bytes" THEN CBytes(Scrubbed(tok.data))
    ELSE tok

\* C10, amended: on a directory without .img files the cleanup renames no
\* file and leaves every Markdown file without an .img path as it was.  A
\* Markdown file with such a path is either left as it was or rewritten; in
\* a rewritten file at least one .img path is replaced, every replaced
\* path is an .img path that becomes the same stem with the first existing
\* candidate extension, or else a file with the same numeric prefix and a
\* candidate extension, and everything else is the file's text read as
\* UTF-8 with universal newlines and written back: line endings become
\* "\n", ill-formed bytes become U+FFFD, and nothing else changes.
C10_NoImgFilesOnlyStaleRefsChange ==
    (cpc = "done" /\ NoImgFiles(cfiles0)) =>
        /\ cfiles = cfiles0
        /\ \A k \in 1..Len(cmds0) :
              LET old == cmds0[k]
                  new == cmds[k]
                  replaced == {i \in 1..Len(old) :
                                  old[i].t = "ref" /\ new[i].file # old[i].file}
              IN /\ Len(new) = Len(old)
                 /\ ~HasImgRef(old) => new = old
                 /\ new # old =>
                       /\ replaced # {}
                       /\ \A i \in replaced :
                             /\ EndsWith(old[i].file, ExtImg)
                             /\ new[i] = [old[i] EXCEPT !.file = new[i].file]
                             /\ StaleRefTarget(cfiles0, old[i].file, new[i].file)
                       /\ \A i \in (1..Len(old)) \ replaced : new[i] = Normalised(old[i])
                       /\ \A i \in 1..Len(old) :
                             (old[i].t = "bytes" /\ utf8_encode(utf8_decode(old[i].data)) = old[i].data
                              /\ ReplacementCodePoint \notin Range(utf8_decode(old[i].data)))
                                 => new[i] = old[i]

\* A directory with 001_abc.gif and 001_abc.png and no .img file, a file
\* without .img path that keeps its CR LF and its invalid byte, and a file
\* whose stale references become .png, whose CR LF becomes LF, whose
\* bytes FF FE become EF BF BD twice and whose C3 A9 stays.
C10_Witness ==
    /\ cpc = "done"
    /\ NoImgFiles(cfiles0)
    /\ Name1Png \in DOMAIN cfiles0
    /\ with_suffix(Name1Png, ExtGif) \in DOMAIN cfiles0
    /\ Len(cmds0) = 2
    /\ ~HasImgRef(cmds0[1])
    /\ cmds[1] = cmds0[1]
    /\ \E i \in 1..Len(cmds0[1]) : cmds0[1][i] = CNewline(CRLF)
    /\ \E i \in 1..Len(cmds0[1]) : cmds0[1][i] = CBytes(<<255>>)
    /\ \E i \in 1..Len(cmds0[2]) :
          /\ cmds0[2][i] = CRef("mdrel", FALSE, Name1Img)
          /\ cmds[2][i] = CRef("mdrel", FALSE, Name1Png)
    /\ \E i \in 1..Len(cmds0[2]) :
          cmds0[2][i] = CNewline(CRLF) /\ cmds[2][i] = CNewline(LF)
    /\ \E i \in 1..Len(cmds0[2]) :
          /\ cmds0[2][i] = CBytes(<<255, 254, 239, 191, 189>>)
          /\ cmds[2][i] = CBytes(<<239, 191, 189, 239, 191, 189, 239, 191, 189>>)
    /\ \E i \in 1..Len(cmds0[2]) :
          cmds0[2][i] = CBytes(<<195, 169>>) /\ cmds[2][i] = cmds0[2][i]

====
